---- MODULE Spec2Model ----
(***************************************************************************)
(* A model of core/download.py: the song-file metadata cache               *)
(* (SongFileCache), the three lru_cache memoizers, the songlist catalogue  *)
(* (SonglistParser), the download tokens (UserDownload) and the            *)
(* download-list builder (DownloadList).                                   *)
(*                                                                         *)
(* Every function of the source is a small step machine: a step holds at   *)
(* most one SQL statement or one write of an LRU or of the class           *)
(* attributes, next to the filesystem call that feeds it.  The program     *)
(* counters are named after the source lines ("l75" is line 75).           *)
(* A handler run alone is the iteration of its steps to completion (Run);  *)
(* interleaved workers take the same steps one at a time.                  *)
(*                                                                         *)
(* Left out: the columns last_scan and last_seen (written, never read by   *)
(* the code), ensure_schema (idempotent, the tables exist), and LRU        *)
(* eviction (the capacities 8192, 2048 and 128 are never reached here).    *)
(***************************************************************************)
EXTENDS Integers, Sequences, FiniteSets, TLC

VARIABLES
    fs,    \* the song tree and the songlist file
    now,   \* int(time())
    cfg,   \* Config
    db,    \* song_cache.db
    lru,   \* the three lru_cache memoizers
    cat,   \* the class attributes of SonglistParser
    tok,   \* download_token, and the random bytes drawn so far
    hits,  \* the limiter's count of downloads per user
    thr,   \* per worker: its stack, the handler it runs or last ran, the outcome
    aud    \* history, read by no handler: tokens issued, catalogue loads, hashes

vars == <<fs, now, cfg, db, lru, cat, tok, hits, thr, aud>>

----------------------------------------------------------------------------
(* Bounds of the model.                                                    *)

\* filesystem modifications (each takes a fresh mtime)
MaxTick == 2
\* seconds the clock of the token specification advances
MaxNow == 3
\* tokens generated (each draws fresh random bytes)
MaxNonce == 3
\* steps a single handler may take before Run gives up (never reached)
MaxSteps == 400
\* calls the interleaved workers take up in all
MaxCalls == 3

(* Program constants (core/constant.py, outside core/download.py): the     *)
(* validity window is scaled down to seconds the clock can cross.          *)
DOWNLOAD_TIME_GAP_LIMIT == 2
DOWNLOAD_TIMES_LIMIT == 1
FREE_PACK_NAME == "base"
SINGLE_PACK_NAME == "single"

\* Python's None, SQL NULL: no md5, no mtime argument
None == 0 - 1

----------------------------------------------------------------------------
(* Names.  A song id is a string of characters (a sequence, because the    *)
(* code concatenates and slices ids); a file name is an atom.              *)

idA == <<"a">>
idB == <<"b">>
idB3 == <<"b", "3">>
idB33 == <<"b", "3", "3">>

\* the directories that may exist under SONG_FILE_FOLDER_PATH
SongIds == {idA, idB}

FILE_NAMES == <<"0.aff", "1.aff", "2.aff", "3.aff", "4.aff", "base.ogg", "3.ogg",
                "video.mp4", "video_audio.ogg", "video_720.mp4", "video_1080.mp4">>

\* the file names that may exist in a song directory
DiskNames == {"0.aff", "1.aff", "junk.txt", "base.ogg", "3.ogg", "video.mp4"}

\* those of them the trees of the metadata cache hold and rewrite
StoreNames == {"0.aff", "1.aff", "junk.txt"}

\* a fixed enumeration order for os.scandir and for ORDER BY
NameOrder == <<"0.aff", "1.aff", "2.aff", "3.aff", "3.ogg", "4.aff", "base.ogg",
               "junk.txt", "video.mp4", "video_1080.mp4", "video_720.mp4",
               "video_audio.ogg">>
SongOrder == <<idA, idB, idB3, idB33>>

InSeq(x, s) == \E i \in 1..Len(s) : s[i] = x

\* the elements of sequence `order` that are in set S, in that order
RECURSIVE SortedBy(_, _)
SortedBy(order, S) ==
    IF order = <<>> THEN <<>>
    ELSE IF Head(order) \in S THEN <<Head(order)>> \o SortedBy(Tail(order), S)
         ELSE SortedBy(Tail(order), S)

SeqToSet(s) == {s[i] : i \in 1..Len(s)}

EmptyFn == [x \in {} |-> 0]
Put(f, k, v) == [x \in DOMAIN f \cup {k} |-> IF x = k THEN v ELSE f[x]]

----------------------------------------------------------------------------
(* Integer bit operations.                                                 *)

RECURSIVE Pow2(_)
Pow2(n) == IF n = 0 THEN 1 ELSE 2 * Pow2(n - 1)

\* rule & (1 << i) != 0
BitSet(rule, i) == (rule \div Pow2(i)) % 2 = 1

\* r |= (1 << i)
OrBit(r, i) == IF BitSet(r, i) THEN r ELSE r + Pow2(i)

----------------------------------------------------------------------------
(* SonglistParser: the pure part.                                          *)

Get(rec, key, default) == IF key \in DOMAIN rec THEN rec[key] ELSE default

\* the loop of lines 245-248 over song['difficulties'] (remote_dl truthy)
RECURSIVE RemoteDlBits(_, _)
RemoteDlBits(r, ds) ==
    IF ds = <<>> THEN r
    ELSE LET i == Head(ds)
             r1 == IF i.ratingClass = 3 /\ Get(i, "audioOverride", FALSE)
                   THEN OrBit(r, 6) ELSE r
         IN RemoteDlBits(OrBit(r1, i.ratingClass), Tail(ds))

\* the loop of lines 250-254 (remote_dl false or absent)
RECURSIVE LocalBits(_, _)
LocalBits(r, ds) ==
    IF ds = <<>> THEN r
    ELSE LET i == Head(ds)
             r1 == IF i.ratingClass = 3
                   THEN (IF Get(i, "audioOverride", FALSE)
                         THEN OrBit(OrBit(r, 3), 6) ELSE OrBit(r, 3))
                   ELSE r
         IN LocalBits(r1, Tail(ds))

\* the loop of lines 256-265 over song['additional_files']
RECURSIVE ExtraBits(_, _)
ExtraBits(r, xs) ==
    IF xs = <<>> THEN r
    ELSE LET x == Head(xs).file_name
             r1 == IF x = FILE_NAMES[8] THEN OrBit(r, 7)
                   ELSE IF x = FILE_NAMES[9] THEN OrBit(r, 8)
                   ELSE IF x = FILE_NAMES[10] THEN OrBit(r, 9)
                   ELSE IF x = FILE_NAMES[11] THEN OrBit(r, 10)
                   ELSE r
         IN ExtraBits(r1, Tail(xs))

\* parse_one: the dict {id: bitmap} to merge into songs ({} without an id)
parse_one(song) ==
    IF "id" \notin DOMAIN song THEN EmptyFn
    ELSE LET ds == Get(song, "difficulties", <<>>)
             r == IF Get(song, "remote_dl", FALSE)
                  THEN RemoteDlBits(OrBit(0, 5), ds)
                  ELSE LocalBits(0, ds)
         IN Put(EmptyFn, song.id, ExtraBits(r, Get(song, "additional_files", <<>>)))

\* dict.update
Update(d, e) == [x \in DOMAIN d \cup DOMAIN e |-> IF x \in DOMAIN e THEN e[x] ELSE d[x]]

\* parse_one_unlock: the class attributes after the call, from those before
parse_one_unlock(c, song) ==
    IF "id" \notin DOMAIN song \/ "set" \notin DOMAIN song \/ "purchase" \notin DOMAIN song
    THEN c
    ELSE IF FREE_PACK_NAME = song.set
    THEN [c EXCEPT !.world_songs =
                     IF \E i \in 1..Len(Get(song, "difficulties", <<>>)) :
                            song.difficulties[i].ratingClass = 3
                     THEN @ \cup {Append(song.id, "3")} ELSE @,
                   !.free_songs = @ \cup {song.id}]
    ELSE LET c1 == IF Get(song, "world_unlock", FALSE)
                   THEN [c EXCEPT !.world_songs = @ \cup {song.id}] ELSE c
         IN IF song.purchase = "" THEN c1
            ELSE [c1 EXCEPT !.pack_info =
                     Put(@, song.set, Get(@, song.set, {}) \cup {song.id})]

\* is_available_file, under the class attribute songs
is_available_file(songs, song_id, file_name) ==
    IF song_id \notin DOMAIN songs THEN InSeq(file_name, FILE_NAMES)
    ELSE \E i \in 0..(Len(FILE_NAMES) - 1) :
            file_name = FILE_NAMES[i + 1] /\ BitSet(songs[song_id], i)

\* str.rstrip('3'): every trailing '3' removed
RECURSIVE RStrip3(_)
RStrip3(i) == IF i = <<>> \/ i[Len(i)] # "3" THEN i ELSE RStrip3(SubSeq(i, 1, Len(i) - 1))

\* i if i[-1] != '3' else i[:-1]
StripOne3(i) == IF i[Len(i)] # "3" THEN i ELSE SubSeq(i, 1, Len(i) - 1)

NoUser == [user_id |-> 0, packs |-> {}, singles |-> {}, world_songs |-> {}]

\* lines 231-232: the world-unlock part of get_user_unlocks
WorldUnlocks(c, user) == {StripOne3(i) : i \in c.world_songs \cap user.world_songs}

\* an entitlement set made of the pack, single and world parts only
PaidUnlocks(c, user) ==
    IF user = NoUser THEN {}
    ELSE UNION {c.pack_info[p] : p \in user.packs \cap DOMAIN c.pack_info}
         \cup (IF SINGLE_PACK_NAME \in DOMAIN c.pack_info
               THEN c.pack_info[SINGLE_PACK_NAME] \cap user.singles ELSE {})
         \cup WorldUnlocks(c, user)

\* get_user_unlocks, under the class attributes c
get_user_unlocks(c, user) ==
    IF user = NoUser THEN {}
    ELSE UNION {c.pack_info[p] : p \in user.packs \cap DOMAIN c.pack_info}
         \cup (IF SINGLE_PACK_NAME \in DOMAIN c.pack_info
               THEN c.pack_info[SINGLE_PACK_NAME] \cap user.singles ELSE {})
         \cup WorldUnlocks(c, user)
         \cup c.free_songs

\* the class attributes as the class statement leaves them (lines 191-197)
CatEmpty == [songs |-> EmptyFn, pack_info |-> EmptyFn, free_songs |-> {},
             world_songs |-> {}, has_songlist |-> FALSE]

----------------------------------------------------------------------------
(* The songlist file: the catalogues SONGLIST_FILE_PATH may hold.          *)

\* a free song with one chart, and a pack song the client may not download
\* charts 0-2 of (remote_dl false)
Songlist1 ==
    << [id |-> idA, set |-> "base", purchase |-> "", remote_dl |-> TRUE,
        difficulties |-> << [ratingClass |-> 0] >>],
       [id |-> idB, set |-> "pack1", purchase |-> "pack1", remote_dl |-> FALSE,
        difficulties |-> << [ratingClass |-> 0], [ratingClass |-> 3, audioOverride |-> TRUE] >>] >>

\* both songs downloadable in full; b world-unlocked, not purchasable
Songlist2 ==
    << [id |-> idA, set |-> "single", purchase |-> "a", remote_dl |-> TRUE,
        difficulties |-> << [ratingClass |-> 0], [ratingClass |-> 1] >>,
        additional_files |-> << [file_name |-> "video.mp4"] >>],
       [id |-> idB, set |-> "pack1", purchase |-> "", world_unlock |-> TRUE,
        remote_dl |-> TRUE,
        difficulties |-> << [ratingClass |-> 0], [ratingClass |-> 1] >>],
       [set |-> "pack1", purchase |-> "pack1"] >>

\* a free song named b3 with a Beyond chart, next to a world-unlocked pack song b
Songlist3 ==
    << [id |-> idB3, set |-> FREE_PACK_NAME, purchase |-> "", remote_dl |-> TRUE,
        difficulties |-> << [ratingClass |-> 3] >>],
       [id |-> idB, set |-> "pack1", purchase |-> "pack1", world_unlock |-> TRUE,
        remote_dl |-> TRUE, difficulties |-> << [ratingClass |-> 0] >>] >>

Songlists == << Songlist1, Songlist2, Songlist3 >>

----------------------------------------------------------------------------
(* The filesystem under SONG_FILE_FOLDER_PATH.  A file is the tick of its  *)
(* last write (0: no such file): every write gives it a fresh mtime and    *)
(* fresh bytes.  A directory's mtime changes when an entry is created or   *)
(* removed in it.                                                          *)

NoFiles == [f \in DiskNames |-> 0]

FileMtime(v) == v
\* st_size of the bytes written at tick v
FileSize(v) == 10 + (v % 2)
\* the MD5 of the bytes written at tick v (util.get_file_md5, md5 is injective here)
MD5Of(v) == 100 + v

IsRootDir(f) == f.root.present
IsDir(f, s) == f.root.present /\ s \in SongIds /\ f.dirs[s].present
IsFile(f, s, n) == IsDir(f, s) /\ n \in DiskNames /\ f.dirs[s].files[n] # 0
StatRoot(f) == f.root.mtime
StatDir(f, s) == f.dirs[s].mtime
StatFile(f, s, n) == [size |-> FileSize(f.dirs[s].files[n]),
                      mtime_ns |-> FileMtime(f.dirs[s].files[n])]
ReadMd5(f, s, n) == MD5Of(f.dirs[s].files[n])
\* os.scandir(song_dir): the names of the regular files
ScanDir(f, s) == SortedBy(NameOrder, {n \in DiskNames : f.dirs[s].files[n] # 0})
\* os.scandir(root_dir): the names of the subdirectories
ScanRoot(f) == SortedBy(SongOrder, {s \in SongIds : f.dirs[s].present})

----------------------------------------------------------------------------
(* song_cache.db: songs maps song_id to dir_mtime_ns, files maps           *)
(* (song_id, file_name) to (size, mtime_ns, md5), meta maps key to value.  *)
(* A row exists iff its key is in the domain.                              *)

DbEmpty == [songs |-> EmptyFn, files |-> EmptyFn, meta |-> EmptyFn]

Restrict(f, S) == [x \in S |-> f[x]]

\* a DELETE that removes nothing
DeleteNothing(d, s) == d

\* line 52, line 85: DELETE FROM files WHERE song_id=?
DeleteFilesOfSong(d, s) ==
    [d EXCEPT !.files = Restrict(@, {k \in DOMAIN @ : k[1] # s})]
\* line 53: DELETE FROM songs WHERE song_id=?
DeleteSongRow(d, s) ==
    [d EXCEPT !.songs = Restrict(@, DOMAIN @ \ {s})]
\* line 59: DELETE FROM files WHERE song_id=? AND file_name=?
DeleteFileRow(d, s, n) ==
    [d EXCEPT !.files = Restrict(@, DOMAIN @ \ {<<s, n>>})]
\* a songs row written as a toggle: dropped when there, inserted when not
FlipSong(d, s, m) ==
    IF s \in DOMAIN d.songs
    THEN [d EXCEPT !.songs = [x \in DOMAIN @ \ {s} |-> @[x]]]
    ELSE [d EXCEPT !.songs = [x \in DOMAIN @ \cup {s} |-> IF x = s THEN m ELSE @[x]]]

\* lines 71-72, 142-143: the songs row is there with this dir_mtime_ns
SongRowMatches(d, s, m) == s \in DOMAIN d.songs /\ d.songs[s] = m
\* line 75: INSERT OR REPLACE INTO songs
UpsertSong(d, s, m) == [d EXCEPT !.songs = Put(@, s, m)]
\* line 165: INSERT OR IGNORE INTO songs
InsertIgnoreSong(d, s, m) ==
    IF s \in DOMAIN d.songs THEN d ELSE [d EXCEPT !.songs = Put(@, s, m)]
\* line 88: DELETE FROM files WHERE song_id=? AND file_name NOT IN (...)
DeleteFilesNotIn(d, s, names) ==
    [d EXCEPT !.files =
        Restrict(@, {k \in DOMAIN @ : k[1] # s \/ InSeq(k[2], names)})]
\* lines 96, 157: the files row is there with this size and mtime_ns
FileRowMatches(d, s, n, st) ==
    /\ <<s, n>> \in DOMAIN d.files
    /\ d.files[<<s, n>>].size = st.size
    /\ d.files[<<s, n>>].mtime_ns = st.mtime_ns
\* line 98: UPDATE files SET md5=? WHERE song_id=? AND file_name=?
UpdateFileMd5(d, s, n, h) ==
    IF <<s, n>> \in DOMAIN d.files
    THEN [d EXCEPT !.files[<<s, n>>].md5 = h] ELSE d
\* lines 103, 161: INSERT OR REPLACE INTO files
UpsertFile(d, s, n, st, h) ==
    [d EXCEPT !.files =
        Put(@, <<s, n>>, [size |-> st.size, mtime_ns |-> st.mtime_ns, md5 |-> h])]
\* line 122: DELETE FROM songs WHERE song_id NOT IN (...)
DeleteSongsNotIn(d, ids) ==
    [d EXCEPT !.songs = Restrict(@, {s \in DOMAIN @ : InSeq(s, ids)})]
\* line 123: DELETE FROM files WHERE song_id NOT IN (...)
DeleteFilesSongNotIn(d, ids) ==
    [d EXCEPT !.files = Restrict(@, {k \in DOMAIN @ : InSeq(k[1], ids)})]
\* line 125: DELETE FROM songs
DeleteAllSongs(d) == [d EXCEPT !.songs = EmptyFn]
\* line 126: DELETE FROM files
DeleteAllFiles(d) == [d EXCEPT !.files = EmptyFn]
\* lines 132-133: meta holds this root_mtime_ns
MetaMatches(d, m) == "root_mtime_ns" \in DOMAIN d.meta /\ d.meta["root_mtime_ns"] = m
\* line 135: INSERT OR REPLACE INTO meta
UpsertMeta(d, m) == [d EXCEPT !.meta = Put(@, "root_mtime_ns", m)]
\* line 136: SELECT song_id FROM songs ORDER BY song_id
SelectSongIds(d) == SortedBy(SongOrder, DOMAIN d.songs)
\* line 145: SELECT file_name FROM files WHERE song_id=? ORDER BY file_name
SelectFileNames(d, s) ==
    SortedBy(NameOrder, {k[2] : k \in {x \in DOMAIN d.files : x[1] = s}})

----------------------------------------------------------------------------
(* download_token in the primary database: a set of rows.                  *)

\* the primary key of download_token (the table is created outside this file)
TokenKey(r) == <<r.user_id, r.song_id, r.file_name>>

\* a plain INSERT, were the table to have no key: every row stays
InsertToken(rows, r) == rows \cup {r}

\* INSERT OR IGNORE of one row: a row of the same key stays, the new one is dropped
InsertOrIgnoreToken(rows, r) ==
    IF \E x \in rows : TokenKey(x) = TokenKey(r) THEN rows ELSE rows \cup {r}

\* INSERT OR REPLACE of one row: the rows of the same key go, the row comes
InsertOrReplaceToken(rows, r) ==
    {x \in rows : TokenKey(x) # TokenKey(r)} \cup {r}

\* a prune that also takes the rows standing at the end of their window
DeleteAgedTokens(rows, t) ==
    {x \in rows : ~(x.time <= t - DOWNLOAD_TIME_GAP_LIMIT)}

\* line 416: delete from download_token where time<?
DeleteExpiredTokens(rows, t) ==
    {x \in rows : ~(x.time < t - DOWNLOAD_TIME_GAP_LIMIT)}

\* lines 421-422: executemany over self.downloads, in order
RECURSIVE InsertTokens(_, _, _)
InsertTokens(rows, user_id, downloads) ==
    IF downloads = <<>> THEN rows
    ELSE InsertTokens(
            InsertOrReplaceToken(rows,
                [user_id |-> user_id, song_id |-> Head(downloads).song_id,
                 file_name |-> Head(downloads).file_name,
                 token |-> Head(downloads).token, time |-> Head(downloads).token_time]),
            user_id, Tail(downloads))

\* a lookup by the token alone, whatever the file it was issued for
SelectByToken(rows, s, n, t) == {x \in rows : x.token = t}

\* line 341: select ... where song_id=? and file_name=? and token=?
SelectForCheck(rows, s, n, t) ==
    {x \in rows : x.song_id = s /\ x.file_name = n /\ x.token = t}

\* a window open at its end: the comparison of line 333 made strict
TokenIsValidStrict(t, token_time) == t - token_time < DOWNLOAD_TIME_GAP_LIMIT

\* line 333: int(time()) - self.token_time <= DOWNLOAD_TIME_GAP_LIMIT
TokenIsValid(t, token_time) == t - token_time <= DOWNLOAD_TIME_GAP_LIMIT

\* lines 354-355: md5 over the user, the file, the second and 8 random bytes
\* (rnd: the random bytes, never drawn twice)
MakeToken(user_id, s, n, t, rnd) == <<user_id, s, n, t, rnd>>
NoToken == <<>>

\* ArcLimiter.test: the user has quota left (the limiter is outside this file)
LimiterTest(h, user_id) == h[user_id] < DOWNLOAD_TIMES_LIMIT

----------------------------------------------------------------------------
(* Call frames.  A worker's stack is a sequence of frames [fn, pc, v, rv]: *)
(* the function, the line it is at, its locals, and what its last callee   *)
(* returned.  A step of the top frame yields the shared program state g =  *)
(* [db, lru, cat, tok], the new stack and, when the stack empties, the     *)
(* handler's outcome.  E = [fs, now, cfg, hits] is what the program reads  *)
(* and does not write.                                                     *)

Top(stk) == stk[Len(stk)]
Frame(fn, pc, v) == [fn |-> fn, pc |-> pc, v |-> v, rv |-> None]
SetTop(stk, pc, v) == [stk EXCEPT ![Len(stk)] = [@ EXCEPT !.pc = pc, !.v = v]]
NoRes == [kind |-> "none", val |-> None]

\* go on in the same frame
Goto(g, stk, pc, v) == [g |-> g, stk |-> SetTop(stk, pc, v), res |-> NoRes]
\* call: the caller resumes at retpc with locals v
Call(g, stk, retpc, v, fr) ==
    [g |-> g, stk |-> Append(SetTop(stk, retpc, v), fr), res |-> NoRes]
\* return val to the caller, or end the handler with it
Ret(g, stk, val) ==
    IF Len(stk) = 1
    THEN [g |-> g, stk |-> <<>>, res |-> [kind |-> "return", val |-> val]]
    ELSE [g |-> g,
          stk |-> [SubSeq(stk, 1, Len(stk) - 1) EXCEPT ![Len(stk) - 1].rv = val],
          res |-> NoRes]
\* an exception no frame of this file catches: the handler ends with it
Raise(g, exc) == [g |-> g, stk |-> <<>>, res |-> [kind |-> "raise", val |-> exc]]

\* util.get_file_md5 (outside this file): the hash of the file's bytes now;
\* of a file that is gone, no hash
get_file_md5(f, s, n) == IF IsFile(f, s, n) THEN ReadMd5(f, s, n) ELSE None

----------------------------------------------------------------------------
(* SongFileCache.                                                          *)

delete_song_frame(s) == Frame("_delete_song", "l52", [song_id |-> s])
delete_file_frame(s, n) == Frame("_delete_file", "l59", [song_id |-> s, file_name |-> n])
sync_song_frame(s, m) ==
    Frame("sync_song", "l65",
          [song_id |-> s, dir_mtime_ns |-> m, file_names |-> <<>>, idx |-> 1,
           st |-> [size |-> 0, mtime_ns |-> 0], md5 |-> None])

_delete_song(E, g, stk) ==
    LET f == Top(stk) IN
    CASE f.pc = "l52" ->
           Goto([g EXCEPT !.db = DeleteFilesOfSong(@, f.v.song_id)], stk, "l53", f.v)
      [] f.pc = "l53" ->
           Ret([g EXCEPT !.db = DeleteSongRow(@, f.v.song_id)], stk, None)

_delete_file(E, g, stk) ==
    LET f == Top(stk) IN
    Ret([g EXCEPT !.db = DeleteFileRow(@, f.v.song_id, f.v.file_name)], stk, None)

\* lines 78-80: the enumerated regular files that is_available_file lets through
LegalEntries(E, g, s) ==
    SortedBy(NameOrder, {n \in SeqToSet(ScanDir(E.fs, s)) :
                            is_available_file(g.cat.songs, s, n)})

sync_song(E, g, stk) ==
    LET f == Top(stk)
        v == f.v
        s == v.song_id
        n == v.file_names[v.idx]
        next == [v EXCEPT !.idx = @ + 1]
    IN
    CASE f.pc = "l65" ->
           IF ~IsDir(E.fs, s) THEN Call(g, stk, "l67", v, delete_song_frame(s))
           ELSE IF v.dir_mtime_ns = None THEN Goto(g, stk, "l69", v)
           ELSE Goto(g, stk, "l71", v)
      [] f.pc = "l67" -> Ret(g, stk, None)
      [] f.pc = "l69" ->
           IF ~IsDir(E.fs, s) THEN Raise(g, "FileNotFoundError")
           ELSE Goto(g, stk, "l71", [v EXCEPT !.dir_mtime_ns = StatDir(E.fs, s)])
      [] f.pc = "l71" ->
           IF SongRowMatches(g.db, s, v.dir_mtime_ns) THEN Ret(g, stk, None)
           ELSE Goto(g, stk, "l75", v)
      [] f.pc = "l75" ->
           Goto([g EXCEPT !.db = UpsertSong(@, s, v.dir_mtime_ns)], stk, "l78", v)
      [] f.pc = "l78" ->
           IF ~IsDir(E.fs, s) THEN Call(g, stk, "l83", v, delete_song_frame(s))
           ELSE LET names == LegalEntries(E, g, s) IN
                Goto(g, stk, IF names = <<>> THEN "l85" ELSE "l88",
                     [v EXCEPT !.file_names = names, !.idx = 1])
      [] f.pc = "l83" -> Ret(g, stk, None)
      [] f.pc = "l85" ->
           Ret([g EXCEPT !.db = DeleteFilesOfSong(@, s)], stk, None)
      [] f.pc = "l88" ->
           Goto([g EXCEPT !.db = DeleteFilesNotIn(@, s, v.file_names)], stk, "l91", v)
      [] f.pc = "l91" ->
           IF v.idx > Len(v.file_names) THEN Ret(g, stk, None)
           ELSE IF ~IsFile(E.fs, s, n) THEN Call(g, stk, "l91", next, delete_file_frame(s, n))
           ELSE Goto(g, stk, "l94", v)
      [] f.pc = "l94" ->
           IF ~IsFile(E.fs, s, n) THEN Raise(g, "FileNotFoundError")
           ELSE Goto(g, stk, "l95", [v EXCEPT !.st = StatFile(E.fs, s, n)])
      [] f.pc = "l95" ->
           IF FileRowMatches(g.db, s, n, v.st)
           THEN IF E.cfg.SONG_FILE_HASH_PRE_CALCULATE /\ g.db.files[<<s, n>>].md5 = None
                THEN Goto(g, stk, "l98h", v)
                ELSE Goto(g, stk, "l100", v)
           ELSE IF E.cfg.SONG_FILE_HASH_PRE_CALCULATE
                THEN Goto(g, stk, "l102", v)
                ELSE Goto(g, stk, "l103", [v EXCEPT !.md5 = None])
      [] f.pc = "l98h" ->
           Goto(g, stk, "l98", [v EXCEPT !.md5 = get_file_md5(E.fs, s, n)])
      [] f.pc = "l98" ->
           Goto([g EXCEPT !.db = UpdateFileMd5(@, s, n, v.md5)], stk, "l91", next)
      [] f.pc = "l100" -> Goto(g, stk, "l91", next)
      [] f.pc = "l102" ->
           Goto(g, stk, "l103", [v EXCEPT !.md5 = get_file_md5(E.fs, s, n)])
      [] f.pc = "l103" ->
           Goto([g EXCEPT !.db = UpsertFile(@, s, n, v.st, v.md5)], stk, "l91", next)

sync_all_frame == Frame("sync_all", "l109", [song_ids |-> <<>>, idx |-> 1])

sync_all(E, g, stk) ==
    LET f == Top(stk)
        v == f.v
        s == v.song_ids[v.idx]
        next == [v EXCEPT !.idx = @ + 1]
    IN
    CASE f.pc = "l109" ->
           IF ~IsRootDir(E.fs) THEN Ret(g, stk, None) ELSE Goto(g, stk, "l111", v)
      [] f.pc = "l111" ->
           IF ~IsRootDir(E.fs) THEN Raise(g, "FileNotFoundError")
           ELSE Goto(g, stk, "l115", [v EXCEPT !.song_ids = ScanRoot(E.fs), !.idx = 1])
      [] f.pc = "l115" ->
           IF v.idx > Len(v.song_ids)
           THEN Goto(g, stk, IF v.song_ids # <<>> THEN "l122" ELSE "l125", v)
           ELSE IF ~IsDir(E.fs, s) THEN Goto(g, stk, "l115", next)
           ELSE Call(g, stk, "l115", next, sync_song_frame(s, StatDir(E.fs, s)))
      [] f.pc = "l122" ->
           Goto([g EXCEPT !.db = DeleteSongsNotIn(@, v.song_ids)], stk, "l123", v)
      [] f.pc = "l123" ->
           Ret([g EXCEPT !.db = DeleteFilesSongNotIn(@, v.song_ids)], stk, None)
      [] f.pc = "l125" ->
           Goto([g EXCEPT !.db = DeleteAllSongs(@)], stk, "l126", v)
      [] f.pc = "l126" ->
           Ret([g EXCEPT !.db = DeleteAllFiles(@)], stk, None)

SongFileCache_get_all_song_ids(E, g, stk) ==
    LET f == Top(stk)
        v == f.v
    IN
    CASE f.pc = "l132" ->
           IF ~MetaMatches(g.db, v.root_mtime_ns)
           THEN Call(g, stk, "l135", v, sync_all_frame)
           ELSE Goto(g, stk, "l136", v)
      [] f.pc = "l135" ->
           Goto([g EXCEPT !.db = UpsertMeta(@, v.root_mtime_ns)], stk, "l136", v)
      [] f.pc = "l136" -> Ret(g, stk, SelectSongIds(g.db))

get_song_file_names(E, g, stk) ==
    LET f == Top(stk)
        v == f.v
    IN
    CASE f.pc = "l142" ->
           IF ~SongRowMatches(g.db, v.song_id, v.dir_mtime_ns)
           THEN Call(g, stk, "l145", v, sync_song_frame(v.song_id, v.dir_mtime_ns))
           ELSE Goto(g, stk, "l145", v)
      [] f.pc = "l145" -> Ret(g, stk, SelectFileNames(g.db, v.song_id))

\* v: song_id, file_name, file_mtime_ns, file_size, md5
SongFileCache_get_song_file_md5(E, g, stk) ==
    LET f == Top(stk)
        v == f.v
        s == v.song_id
        n == v.file_name
        st == [size |-> v.file_size, mtime_ns |-> v.file_mtime_ns]
    IN
    CASE f.pc = "l151" ->
           IF ~IsFile(E.fs, s, n) THEN Call(g, stk, "l153", v, delete_file_frame(s, n))
           ELSE Goto(g, stk, "l155", v)
      [] f.pc = "l153" -> Ret(g, stk, None)
      [] f.pc = "l155" ->
           IF FileRowMatches(g.db, s, n, st) /\ g.db.files[<<s, n>>].md5 # None
           THEN Goto(g, stk, "l158", [v EXCEPT !.md5 = g.db.files[<<s, n>>].md5])
           ELSE Goto(g, stk, "l160", v)
      [] f.pc = "l158" -> Ret(g, stk, v.md5)
      [] f.pc = "l160" ->
           Goto(g, stk, "l161", [v EXCEPT !.md5 = get_file_md5(E.fs, s, n)])
      [] f.pc = "l161" ->
           Goto([g EXCEPT !.db = UpsertFile(@, s, n, st, v.md5)], stk, "l163", v)
      [] f.pc = "l163" ->
           IF IsDir(E.fs, s) THEN Goto(g, stk, "l165s", v) ELSE Ret(g, stk, v.md5)
      [] f.pc = "l165s" ->
           IF ~IsDir(E.fs, s) THEN Ret(g, stk, v.md5)
           ELSE Goto(g, stk, "l165", [v EXCEPT !.dir_mtime_ns = StatDir(E.fs, s)])
      [] f.pc = "l165" ->
           Ret([g EXCEPT !.db = InsertIgnoreSong(@, s, v.dir_mtime_ns)], stk, v.md5)

md5_frame(s, n, m, size) ==
    Frame("SongFileCache_get_song_file_md5", "l151",
          [song_id |-> s, file_name |-> n, file_mtime_ns |-> m, file_size |-> size,
           md5 |-> None, dir_mtime_ns |-> None])

\* lru_cache over SongFileCache.get_song_file_md5: a miss calls through and
\* stores what came back (nothing is held while the call runs)
_get_song_file_md5_cached(E, g, stk) ==
    LET f == Top(stk)
        k == f.v.key
    IN
    CASE f.pc = "l172" ->
           IF k \in DOMAIN g.lru.md5 THEN Ret(g, stk, g.lru.md5[k])
           ELSE Call(g, stk, "l173", f.v, md5_frame(k[1], k[2], k[3], k[4]))
      [] f.pc = "l173" ->
           Ret([g EXCEPT !.lru.md5 = Put(@, k, f.rv)], stk, f.rv)

\* the module's get_song_file_md5(song_id, file_name)
get_song_file_md5(E, g, stk) ==
    LET f == Top(stk)
        v == f.v
        s == v.song_id
        n == v.file_name
    IN
    CASE f.pc = "l178" ->
           IF ~IsFile(E.fs, s, n) THEN Call(g, stk, "l180", v, delete_file_frame(s, n))
           ELSE Goto(g, stk, "l181", v)
      [] f.pc = "l180" -> Ret(g, stk, None)
      [] f.pc = "l181" ->
           IF ~IsFile(E.fs, s, n) THEN Raise(g, "FileNotFoundError")
           ELSE LET st == StatFile(E.fs, s, n) IN
                Call(g, stk, "l182", v,
                     Frame("_get_song_file_md5_cached", "l172",
                           [key |-> <<s, n, st.mtime_ns, st.size>>]))
      [] f.pc = "l182" -> Ret(g, stk, f.rv)

hash_frame(s, n) == Frame("get_song_file_md5", "l178", [song_id |-> s, file_name |-> n])

----------------------------------------------------------------------------
(* SonglistParser() and DownloadList.clear_all_cache: the writers of the   *)
(* class attributes.                                                       *)

\* __init__ and parse.  self.has_songlist = True (line 294) binds an
\* attribute of the instance: it is the local v.has_songlist here, and the
\* class attribute SonglistParser.has_songlist, cat.has_songlist, is not
\* written.
parse(E, g, stk) ==
    LET f == Top(stk)
        v == f.v
        x == v.data[v.idx]
    IN
    CASE f.pc = "l290" ->
           IF E.fs.songlist = 0 THEN Ret(g, stk, None) ELSE Goto(g, stk, "l292", v)
      [] f.pc = "l292" ->
           IF E.fs.songlist = 0 THEN Raise(g, "FileNotFoundError")
           ELSE Goto(g, stk, "l296",
                     [v EXCEPT !.data = Songlists[E.fs.songlist],
                               !.has_songlist = TRUE, !.idx = 1])
      [] f.pc = "l296" ->
           IF v.idx > Len(v.data) THEN Ret(g, stk, None)
           ELSE Goto([g EXCEPT !.cat.songs = Update(@, parse_one(x))], stk, "l297", v)
      [] f.pc = "l297" ->
           Goto([g EXCEPT !.cat = parse_one_unlock(@, x)], stk, "l296",
                [v EXCEPT !.idx = @ + 1])

parse_frame == Frame("parse", "l290", [data |-> <<>>, idx |-> 1, has_songlist |-> FALSE])

initialize_cache(E, g, stk) ==
    LET f == Top(stk) IN
    CASE f.pc = "l398" -> Call(g, stk, "l400", f.v, parse_frame)
      [] f.pc = "l400" -> Call(g, stk, "l401", f.v, sync_all_frame)
      [] f.pc = "l401" -> Ret(g, stk, None)

clear_all_cache(E, g, stk) ==
    LET f == Top(stk) IN
    CASE f.pc = "l405" -> Goto([g EXCEPT !.lru.md5 = EmptyFn], stk, "l406", f.v)
      [] f.pc = "l406" -> Goto([g EXCEPT !.lru.names = EmptyFn], stk, "l407", f.v)
      [] f.pc = "l407" -> Goto([g EXCEPT !.lru.all = EmptyFn], stk, "l408", f.v)
      [] f.pc = "l408" -> Goto([g EXCEPT !.cat.songs = EmptyFn], stk, "l409", f.v)
      [] f.pc = "l409" -> Goto([g EXCEPT !.cat.pack_info = EmptyFn], stk, "l410", f.v)
      [] f.pc = "l410" -> Goto([g EXCEPT !.cat.free_songs = {}], stk, "l411", f.v)
      [] f.pc = "l411" -> Goto([g EXCEPT !.cat.world_songs = {}], stk, "l412", f.v)
      [] f.pc = "l412" -> Ret([g EXCEPT !.cat.has_songlist = FALSE], stk, None)

----------------------------------------------------------------------------
(* UserDownload: the checks of a download request (song_id, file_name,     *)
(* token) made with no user.                                               *)

\* raises NoAccess (status 403) or returns the row's (user_id, time)
select_for_check(E, g, stk) ==
    LET f == Top(stk)
        x == SelectForCheck(g.tok.rows, f.v.song_id, f.v.file_name, f.v.token)
    IN
    IF x = {} THEN Raise(g, "NoAccess403")
    ELSE LET r == CHOOSE r \in x : TRUE IN
         Ret(g, stk, [user_id |-> r.user_id, time |-> r.time])

check_frame(v) == Frame("select_for_check", "l341", v)

\* the property is_valid, token_time being None
is_valid(E, g, stk) ==
    LET f == Top(stk) IN
    CASE f.pc = "l331" -> Call(g, stk, "l333", f.v, check_frame(f.v))
      [] f.pc = "l333" -> Ret(g, stk, TokenIsValid(E.now, f.rv.time))

\* the property is_limited, user being None
is_limited(E, g, stk) ==
    LET f == Top(stk) IN
    CASE f.pc = "l323" -> Call(g, stk, "l326", f.v, check_frame(f.v))
      [] f.pc = "l326" -> Ret(g, stk, ~LimiterTest(E.hits, f.rv.user_id))

----------------------------------------------------------------------------
(* DownloadList.                                                           *)

_get_cached_song_file_names(E, g, stk) ==
    LET f == Top(stk)
        k == f.v.key
    IN
    CASE f.pc = "l426" ->
           IF k \in DOMAIN g.lru.names THEN Ret(g, stk, g.lru.names[k])
           ELSE Call(g, stk, "l428", f.v,
                     Frame("get_song_file_names", "l142",
                           [song_id |-> k[1], dir_mtime_ns |-> k[2]]))
      [] f.pc = "l428" ->
           Ret([g EXCEPT !.lru.names = Put(@, k, f.rv)], stk, f.rv)

get_one_song_file_names(E, g, stk) ==
    LET f == Top(stk)
        s == f.v.song_id
    IN
    CASE f.pc = "l433" ->
           IF ~IsDir(E.fs, s) THEN Call(g, stk, "l435", f.v, delete_song_frame(s))
           ELSE Goto(g, stk, "l437", f.v)
      [] f.pc = "l435" -> Ret(g, stk, <<>>)
      [] f.pc = "l437" ->
           IF ~IsDir(E.fs, s) THEN Call(g, stk, "l435", f.v, delete_song_frame(s))
           ELSE Call(g, stk, "l441", f.v,
                     Frame("_get_cached_song_file_names", "l426",
                           [key |-> <<s, StatDir(E.fs, s)>>]))
      [] f.pc = "l441" -> Ret(g, stk, f.rv)

names_frame(s) == Frame("get_one_song_file_names", "l433", [song_id |-> s])

_get_all_cached_song_ids(E, g, stk) ==
    LET f == Top(stk)
        k == f.v.key
    IN
    CASE f.pc = "l490" ->
           IF k \in DOMAIN g.lru.all THEN Ret(g, stk, g.lru.all[k])
           ELSE Call(g, stk, "l492", f.v,
                     Frame("SongFileCache_get_all_song_ids", "l132", [root_mtime_ns |-> k]))
      [] f.pc = "l492" ->
           Ret([g EXCEPT !.lru.all = Put(@, k, f.rv)], stk, f.rv)

DownloadList_get_all_song_ids(E, g, stk) ==
    LET f == Top(stk) IN
    CASE f.pc = "l497" ->
           IF ~IsRootDir(E.fs) THEN Ret(g, stk, <<>>) ELSE Goto(g, stk, "l500", f.v)
      [] f.pc = "l500" ->
           IF ~IsRootDir(E.fs) THEN Ret(g, stk, <<>>)
           ELSE Call(g, stk, "l503", f.v,
                     Frame("_get_all_cached_song_ids", "l490", [key |-> StatRoot(E.fs)]))
      [] f.pc = "l503" -> Ret(g, stk, f.rv)

all_ids_frame == Frame("DownloadList_get_all_song_ids", "l497", [a |-> 0])

\* i[0] of a file name
FirstChar(n) ==
    CASE n = "0.aff" -> "0" [] n = "1.aff" -> "1" [] n = "2.aff" -> "2"
      [] n = "3.aff" -> "3" [] n = "4.aff" -> "4" [] n = "3.ogg" -> "3"
      [] n = "base.ogg" -> "b" [] n = "junk.txt" -> "j" [] OTHER -> "v"

\* line 372: the link carries the song, the file and the token
UrlOf(s, n, t) == [song_id |-> s, file_name |-> n, t |-> t]

\* {"checksum": ..., "url": ...} or {"checksum": ...}
Entry(h, url_flag, u) ==
    IF url_flag THEN [checksum |-> h, url |-> u] ELSE [checksum |-> h]

\* lines 451-484: the manifest entry re with file i routed into it
Route(re, i, h, url_flag, u) ==
    IF i = "base.ogg"
    THEN LET a == Put(Get(re, "audio", EmptyFn), "checksum", h) IN
         Put(re, "audio", IF url_flag THEN Put(a, "url", u) ELSE a)
    ELSE IF i = "3.ogg"
    THEN Put(re, "audio", Put(Get(re, "audio", EmptyFn), "3", Entry(h, url_flag, u)))
    ELSE IF i \in {"video.mp4", "video_audio.ogg", "video_720.mp4", "video_1080.mp4"}
    THEN Put(re, "additional_files",
             Append(Get(re, "additional_files", <<>>),
                    IF url_flag THEN [checksum |-> h, url |-> u, file_name |-> i]
                    ELSE [checksum |-> h, file_name |-> i]))
    ELSE Put(re, "chart", Put(Get(re, "chart", EmptyFn), FirstChar(i), Entry(h, url_flag, u)))

\* v: self (the DownloadList), song_id, names, idx, re
add_one_song(E, g, stk) ==
    LET f == Top(stk)
        v == f.v
        i == v.names[v.idx]
        x == [song_id |-> v.song_id, file_name |-> i, token |-> NoToken, token_time |-> None]
    IN
    CASE f.pc = "l446" -> Call(g, stk, "l446r", v, names_frame(v.song_id))
      [] f.pc = "l446r" -> Goto(g, stk, "l447", [v EXCEPT !.names = f.rv, !.idx = 1])
      [] f.pc = "l447" ->
           IF v.idx > Len(v.names) THEN Goto(g, stk, "l486", v)
           ELSE Call(g, stk, "l451", [v EXCEPT !.self.downloads = Append(@, x)],
                     hash_frame(v.song_id, i))
      [] f.pc = "l451" ->
           \* x.hash has returned f.rv; with url_flag, x.url generates the token
           LET t == MakeToken(v.self.user.user_id, v.song_id, i, E.now, g.tok.nonce)
               k == Len(v.self.downloads)
               g1 == IF v.self.url_flag THEN [g EXCEPT !.tok.nonce = @ + 1] ELSE g
               dl == IF v.self.url_flag
                     THEN [v.self.downloads EXCEPT ![k].token = t, ![k].token_time = E.now]
                     ELSE v.self.downloads
           IN Goto(g1, stk, "l447",
                   [v EXCEPT !.self.downloads = dl,
                             !.re = Route(@, i, f.rv, v.self.url_flag, UrlOf(v.song_id, i, t)),
                             !.idx = @ + 1])
      [] f.pc = "l486" ->
           Ret(g, stk, [v.self EXCEPT !.urls = Put(@, v.song_id, v.re)])

add_one_frame(self, s) ==
    Frame("add_one_song", "l446",
          [self |-> self, song_id |-> s, names |-> <<>>, idx |-> 1, re |-> EmptyFn])

\* a request that writes its tokens whatever its url_flag
TokensAlways(self) == TRUE

\* line 529: if self.url_flag
UrlFlagSet(self) == self.url_flag

\* lines 514-515, 522-523: list(get_user_unlocks(user) & set(song_ids))
Unlocked(g, self) ==
    SortedBy(SongOrder, get_user_unlocks(g.cat, self.user) \cap SeqToSet(self.song_ids))

\* v: self, idx
add_songs(E, g, stk) ==
    LET f == Top(stk)
        v == f.v
        self == v.self
        i == self.song_ids[v.idx]
        filter == E.cfg.DOWNLOAD_FORBID_WHEN_NO_ITEM /\ g.cat.has_songlist
    IN
    CASE f.pc = "l507" ->
           IF self.song_ids = <<>> THEN Call(g, stk, "l512", v, all_ids_frame)
           ELSE Goto(g, stk, "l520", v)
      [] f.pc = "l512" ->
           LET s1 == [self EXCEPT !.song_ids = f.rv] IN
           Goto(g, stk, "l517",
                [v EXCEPT !.self = IF filter THEN [s1 EXCEPT !.song_ids = Unlocked(g, s1)]
                                   ELSE s1,
                          !.idx = 1])
      [] f.pc = "l517" ->
           IF v.idx > Len(self.song_ids) THEN Goto(g, stk, "l529", v)
           ELSE Call(g, stk, "l518", v, add_one_frame(self, i))
      [] f.pc = "l518" ->
           Goto(g, stk, "l517", [v EXCEPT !.self = f.rv, !.idx = @ + 1])
      [] f.pc = "l520" ->
           Goto(g, stk, "l525",
                [v EXCEPT !.self = IF filter THEN [self EXCEPT !.song_ids = Unlocked(g, self)]
                                   ELSE self,
                          !.idx = 1])
      [] f.pc = "l525" ->
           IF v.idx > Len(self.song_ids) THEN Goto(g, stk, "l529", v)
           ELSE IF IsDir(E.fs, i) THEN Call(g, stk, "l527", v, add_one_frame(self, i))
           ELSE Goto(g, stk, "l525", [v EXCEPT !.idx = @ + 1])
      [] f.pc = "l527" ->
           Goto(g, stk, "l525", [v EXCEPT !.self = f.rv, !.idx = @ + 1])
      [] f.pc = "l529" ->
           IF UrlFlagSet(self) THEN Goto(g, stk, "l530", v)
           ELSE Ret(g, stk, [urls |-> self.urls, downloads |-> self.downloads])
      [] f.pc = "l530" ->
           Goto([g EXCEPT !.tok.rows = DeleteExpiredTokens(@, E.now)], stk, "l531", v)
      [] f.pc = "l531" ->
           Ret([g EXCEPT !.tok.rows = InsertTokens(@, self.user.user_id, self.downloads)],
               stk, [urls |-> self.urls, downloads |-> self.downloads])

add_songs_frame(user, song_ids, url_flag) ==
    Frame("add_songs", "l507",
          [self |-> [user |-> user, song_ids |-> song_ids, url_flag |-> url_flag,
                     downloads |-> <<>>, urls |-> EmptyFn],
           idx |-> 1])

----------------------------------------------------------------------------
(* One step of a worker, and a handler run to its end.                     *)

Step(E, g, stk) ==
    LET fn == Top(stk).fn IN
    CASE fn = "_delete_song" -> _delete_song(E, g, stk)
      [] fn = "_delete_file" -> _delete_file(E, g, stk)
      [] fn = "sync_song" -> sync_song(E, g, stk)
      [] fn = "sync_all" -> sync_all(E, g, stk)
      [] fn = "SongFileCache_get_all_song_ids" -> SongFileCache_get_all_song_ids(E, g, stk)
      [] fn = "get_song_file_names" -> get_song_file_names(E, g, stk)
      [] fn = "SongFileCache_get_song_file_md5" -> SongFileCache_get_song_file_md5(E, g, stk)
      [] fn = "_get_song_file_md5_cached" -> _get_song_file_md5_cached(E, g, stk)
      [] fn = "get_song_file_md5" -> get_song_file_md5(E, g, stk)
      [] fn = "parse" -> parse(E, g, stk)
      [] fn = "initialize_cache" -> initialize_cache(E, g, stk)
      [] fn = "clear_all_cache" -> clear_all_cache(E, g, stk)
      [] fn = "select_for_check" -> select_for_check(E, g, stk)
      [] fn = "is_valid" -> is_valid(E, g, stk)
      [] fn = "is_limited" -> is_limited(E, g, stk)
      [] fn = "_get_cached_song_file_names" -> _get_cached_song_file_names(E, g, stk)
      [] fn = "get_one_song_file_names" -> get_one_song_file_names(E, g, stk)
      [] fn = "_get_all_cached_song_ids" -> _get_all_cached_song_ids(E, g, stk)
      [] fn = "DownloadList_get_all_song_ids" -> DownloadList_get_all_song_ids(E, g, stk)
      [] fn = "add_one_song" -> add_one_song(E, g, stk)
      [] fn = "add_songs" -> add_songs(E, g, stk)

RECURSIVE RunFrom(_, _, _)
RunFrom(E, r, n) ==
    IF r.stk = <<>> \/ n = 0 THEN r ELSE RunFrom(E, Step(E, r.g, r.stk), n - 1)

\* the handler whose first frame is fr, run alone from g to its end
Run(E, g, fr) == RunFrom(E, [g |-> g, stk |-> <<fr>>, res |-> NoRes], MaxSteps)

----------------------------------------------------------------------------
(* The state.                                                              *)

Workers == {1, 2}

User1 == [user_id |-> 1, packs |-> {}, singles |-> {}, world_songs |-> {}]
User2 == [user_id |-> 2, packs |-> {"pack1"}, singles |-> {idA}, world_songs |-> {idB}]
Users == {User1, User2}
UserIds == {0, 1, 2}

G == [db |-> db, lru |-> lru, cat |-> cat, tok |-> tok]
E == [fs |-> fs, now |-> now, cfg |-> cfg, hits |-> hits]

Idle == [stk |-> <<>>, op |-> [name |-> "idle", args |-> <<>>], res |-> NoRes]
AllIdle == [w \in Workers |-> Idle]

\* a tree with two songs: a holds two charts and a stray file, b one chart
Disk0 ==
    [tick |-> 1, songlist |-> 0,
     root |-> [present |-> TRUE, mtime |-> 1],
     dirs |-> [s \in SongIds |->
                 [present |-> TRUE, mtime |-> 1,
                  files |-> [n \in DiskNames |->
                               IF (s = idA /\ n \in StoreNames) \/ n = "0.aff"
                               THEN 1 ELSE 0]]]]

LruEmpty == [md5 |-> EmptyFn, names |-> EmptyFn, all |-> EmptyFn]
AudEmpty == [issued |-> {}, loaded |-> FALSE, hashed |-> EmptyFn, calls |-> 0]

\* a fresh process over a fresh song_cache.db and an empty download_token
InitCommon ==
    /\ now = 0
    /\ cfg \in [SONG_FILE_HASH_PRE_CALCULATE : BOOLEAN, DOWNLOAD_FORBID_WHEN_NO_ITEM : BOOLEAN]
    /\ db = DbEmpty
    /\ lru = LruEmpty
    /\ cat = CatEmpty
    /\ tok = [rows |-> {}, nonce |-> 0]
    /\ hits = [u \in UserIds |-> 0]
    /\ thr = AllIdle
    /\ aud = AudEmpty

----------------------------------------------------------------------------
(* The environment: what happens to the files, and the clock.  Each        *)
(* modification takes the next tick as its mtime.  What becomes of thr is   *)
(* said where the action is used.                                          *)

Touched(f) == [f EXCEPT !.tick = @ + 1]

\* a file is created or rewritten
EnvWriteFile(s, n) ==
    /\ fs.tick < MaxTick
    /\ IsDir(fs, s)
    /\ fs' = [Touched(fs) EXCEPT
                !.dirs[s].files[n] = fs.tick + 1,
                !.dirs[s].mtime = IF fs.dirs[s].files[n] = 0 THEN fs.tick + 1 ELSE @]
    /\ UNCHANGED <<now, cfg, db, lru, cat, tok, hits, aud>>

EnvRemoveFile(s, n) ==
    /\ fs.tick < MaxTick
    /\ IsFile(fs, s, n)
    /\ fs' = [Touched(fs) EXCEPT !.dirs[s].files[n] = 0, !.dirs[s].mtime = fs.tick + 1]
    /\ UNCHANGED <<now, cfg, db, lru, cat, tok, hits, aud>>

EnvRemoveDir(s) ==
    /\ fs.tick < MaxTick
    /\ IsDir(fs, s)
    /\ fs' = [Touched(fs) EXCEPT
                !.dirs[s] = [present |-> FALSE, mtime |-> 0, files |-> NoFiles],
                !.root.mtime = fs.tick + 1]
    /\ UNCHANGED <<now, cfg, db, lru, cat, tok, hits, aud>>

EnvMakeDir(s) ==
    /\ fs.tick < MaxTick
    /\ IsRootDir(fs) /\ ~IsDir(fs, s)
    /\ fs' = [Touched(fs) EXCEPT
                !.dirs[s] = [present |-> TRUE, mtime |-> fs.tick + 1, files |-> NoFiles],
                !.root.mtime = fs.tick + 1]
    /\ UNCHANGED <<now, cfg, db, lru, cat, tok, hits, aud>>

EnvRemoveRoot ==
    /\ fs.tick < MaxTick
    /\ IsRootDir(fs)
    /\ fs' = [Touched(fs) EXCEPT
                !.root = [present |-> FALSE, mtime |-> 0],
                !.dirs = [s \in SongIds |->
                            [present |-> FALSE, mtime |-> 0, files |-> NoFiles]]]
    /\ UNCHANGED <<now, cfg, db, lru, cat, tok, hits, aud>>

EnvMakeRoot ==
    /\ fs.tick < MaxTick
    /\ ~IsRootDir(fs)
    /\ fs' = [Touched(fs) EXCEPT !.root = [present |-> TRUE, mtime |-> fs.tick + 1]]
    /\ UNCHANGED <<now, cfg, db, lru, cat, tok, hits, aud>>

\* the songlist file is installed, replaced (k > 0) or removed (k = 0)
EnvSetSonglist(k) ==
    /\ fs.tick < MaxTick
    /\ fs.songlist # k
    /\ fs' = [Touched(fs) EXCEPT !.songlist = k]
    /\ UNCHANGED <<now, cfg, db, lru, cat, tok, hits, aud>>

EnvTick ==
    /\ now < MaxNow
    /\ now' = now + 1
    /\ UNCHANGED <<fs, cfg, db, lru, cat, tok, hits, aud>>

----------------------------------------------------------------------------
(* Handlers run alone: worker 1 runs one from its call to its end, and thr *)
(* keeps the call and its outcome until the next action.                   *)

Handle(name, args, fr) ==
    \E r \in {Run(E, G, fr)} :
    /\ db' = r.g.db
    /\ lru' = r.g.lru
    /\ cat' = r.g.cat
    /\ tok' = r.g.tok
    /\ thr' = [AllIdle EXCEPT ![1] = [stk |-> r.stk, op |-> [name |-> name, args |-> args],
                                     res |-> r.res]]
    /\ UNCHANGED <<fs, now, cfg, hits>>

DoSyncSong(s) ==
    Handle("sync_song", [song_id |-> s], sync_song_frame(s, None)) /\ aud' = aud

DoSyncAll == Handle("sync_all", <<>>, sync_all_frame) /\ aud' = aud

\* the module's get_song_file_md5, through the LRU
DoGetMd5(s, n) ==
    Handle("get_song_file_md5", [song_id |-> s, file_name |-> n], hash_frame(s, n))
    /\ aud' = aud

\* SongFileCache.get_song_file_md5 with the size and mtime its caller has stat'd
DoCacheMd5(s, n) ==
    /\ IsFile(fs, s, n)
    /\ Handle("SongFileCache_get_song_file_md5", [song_id |-> s, file_name |-> n],
              md5_frame(s, n, StatFile(fs, s, n).mtime_ns, StatFile(fs, s, n).size))
    /\ aud' = aud

\* DownloadList.get_one_song_file_names, through the LRU
DoGetOneNames(s) ==
    Handle("get_one_song_file_names", [song_id |-> s], names_frame(s)) /\ aud' = aud

\* SongFileCache.get_song_file_names with the mtime its caller has stat'd
DoGetNames(s) ==
    /\ IsDir(fs, s)
    /\ Handle("get_song_file_names", [song_id |-> s, dir_mtime_ns |-> StatDir(fs, s)],
              Frame("get_song_file_names", "l142",
                    [song_id |-> s, dir_mtime_ns |-> StatDir(fs, s)]))
    /\ aud' = aud

DoGetAllIds == Handle("get_all_song_ids", <<>>, all_ids_frame) /\ aud' = aud

DoClearAllCache ==
    /\ Handle("clear_all_cache", <<>>, Frame("clear_all_cache", "l405", <<>>))
    /\ aud' = [aud EXCEPT !.loaded = FALSE]

DoInitializeCache ==
    /\ Handle("initialize_cache", <<>>, Frame("initialize_cache", "l398", <<>>))
    /\ aud' = [aud EXCEPT !.loaded = @ \/ fs.songlist # 0]

\* the environment acts between two handlers
Between(A) == A /\ thr' = AllIdle

\* the same tree without directory b, and no tree at all
DiskNoB ==
    [Disk0 EXCEPT !.dirs[idB] = [present |-> FALSE, mtime |-> 0, files |-> NoFiles]]
DiskNoRoot ==
    [Disk0 EXCEPT !.root = [present |-> FALSE, mtime |-> 0],
                  !.dirs = [s \in SongIds |->
                              [present |-> FALSE, mtime |-> 0, files |-> NoFiles]]]

InitStore ==
    /\ InitCommon
    /\ fs \in {Disk0, DiskNoB, DiskNoRoot}
    /\ cfg.DOWNLOAD_FORBID_WHEN_NO_ITEM

NextStore ==
    \/ \E s \in SongIds, n \in StoreNames : Between(EnvWriteFile(s, n))
    \/ \E s \in SongIds, n \in StoreNames : Between(EnvRemoveFile(s, n))
    \/ \E s \in SongIds : Between(EnvRemoveDir(s))
    \/ \E s \in SongIds : Between(EnvMakeDir(s))
    \/ Between(EnvRemoveRoot)
    \/ Between(EnvMakeRoot)
    \/ \E k \in 0..Len(Songlists) : Between(EnvSetSonglist(k))
    \/ \E s \in SongIds : DoSyncSong(s)
    \/ DoSyncAll
    \/ \E s \in SongIds, n \in StoreNames : DoCacheMd5(s, n)
    \/ \E s \in SongIds : DoGetNames(s)
    \/ DoClearAllCache
    \/ DoInitializeCache

\* the metadata cache and the catalogue, one handler at a time
SpecStore == InitStore /\ [][NextStore]_vars

----------------------------------------------------------------------------
(* Claims about the metadata cache, one handler at a time (SpecStore).     *)

\* the handler worker 1 has just run to its end
Returned(name) == thr[1].op.name = name /\ thr[1].res.kind = "return"

\* the regular files of directory s that is_available_file lets through now
LegalPresent(s) ==
    {n \in DiskNames : IsFile(fs, s, n) /\ is_available_file(cat.songs, s, n)}

\* the file names that have a files row for song s
FileRowsOf(s) == {k[2] : k \in {x \in DOMAIN db.files : x[1] = s}}

\* C2: every file name get_song_file_names returns passes is_available_file
\* under the catalogue in force at the call, whatever sync_song, sync_all,
\* get_song_file_md5, clear_all_cache and initialize_cache ran before.
C2_BitmapLegality ==
    Returned("get_song_file_names") =>
        \A n \in SeqToSet(thr[1].res.val) :
            is_available_file(cat.songs, thr[1].op.args.song_id, n)

\* C5: when sync_all returns, songs holds exactly the subdirectories present
\* under the root, and with no root or no subdirectory songs and files are
\* both empty.
C5_SyncAllMirrorsRoot ==
    Returned("sync_all") =>
        /\ DOMAIN db.songs = {s \in SongIds : IsDir(fs, s)}
        /\ ({s \in SongIds : IsDir(fs, s)} = {} =>
                DOMAIN db.songs = {} /\ DOMAIN db.files = {})

\* C6: when sync_song(s) returns, the files rows of s are exactly the regular
\* files of directory s that are present and pass is_available_file.
C6_SyncSongExact ==
    Returned("sync_song") =>
        FileRowsOf(thr[1].op.args.song_id) = LegalPresent(thr[1].op.args.song_id)

----------------------------------------------------------------------------
(* Download lists and tokens, one handler at a time (SpecToken).  The      *)
(* process has started over a songlist file: initialize_cache has run.     *)

\* the ids a request may name: none (all songs), or one song twice
RequestIds == {<<>>, <<idA, idA>>}

\* the tokens of a request's downloads, as rows of download_token
RowsOf(user_id, downloads) ==
    {[user_id |-> user_id, song_id |-> downloads[i].song_id,
      file_name |-> downloads[i].file_name, token |-> downloads[i].token,
      time |-> downloads[i].token_time] : i \in 1..Len(downloads)}

DoAddSongs(user, song_ids, url_flag) ==
    /\ tok.nonce < MaxNonce
    /\ \E r \in {Run(E, G, add_songs_frame(user, song_ids, url_flag))} :
        /\ db' = r.g.db
        /\ lru' = r.g.lru
        /\ cat' = r.g.cat
        /\ tok' = r.g.tok
        /\ thr' = [AllIdle EXCEPT ![1] =
                     [stk |-> r.stk,
                      op |-> [name |-> "add_songs",
                              args |-> [user |-> user, song_ids |-> song_ids,
                                        url_flag |-> url_flag]],
                      res |-> r.res]]
        /\ aud' = IF url_flag /\ r.res.kind = "return"
                  THEN [aud EXCEPT !.issued = @ \cup RowsOf(user.user_id, r.res.val.downloads)]
                  ELSE aud
    /\ UNCHANGED <<fs, now, cfg, hits>>

\* the tokens a download request may present: those issued, and one never issued
Presentable == {x.token : x \in aud.issued} \cup {NoToken}

DoIsValid(s, n, t) ==
    /\ Handle("is_valid", [song_id |-> s, file_name |-> n, token |-> t],
              Frame("is_valid", "l331", [song_id |-> s, file_name |-> n, token |-> t]))
    /\ aud' = aud

DoIsLimited(s, n, t) ==
    /\ Handle("is_limited", [song_id |-> s, file_name |-> n, token |-> t],
              Frame("is_limited", "l323", [song_id |-> s, file_name |-> n, token |-> t]))
    /\ aud' = aud

\* download_hit: limiter.hit counts one download of the token's user
DoDownloadHit(u) ==
    /\ LimiterTest(hits, u)
    /\ hits' = [hits EXCEPT ![u] = @ + 1]
    /\ thr' = AllIdle
    /\ UNCHANGED <<fs, now, cfg, db, lru, cat, tok, aud>>

DiskTok ==
    [Disk0 EXCEPT !.songlist = 2, !.dirs[idA].files["junk.txt"] = 0,
                  !.dirs[idA].files["1.aff"] = 0]

\* the state initialize_cache leaves at startup
Boot(f, c) ==
    Run([fs |-> f, now |-> 0, cfg |-> c, hits |-> [u \in UserIds |-> 0]],
        [db |-> DbEmpty, lru |-> LruEmpty, cat |-> CatEmpty, tok |-> [rows |-> {}, nonce |-> 0]],
        Frame("initialize_cache", "l398", <<>>))

InitToken ==
    /\ fs = DiskTok
    /\ now = 0
    /\ cfg = [SONG_FILE_HASH_PRE_CALCULATE |-> FALSE, DOWNLOAD_FORBID_WHEN_NO_ITEM |-> TRUE]
    /\ db = Boot(fs, cfg).g.db
    /\ lru = Boot(fs, cfg).g.lru
    /\ cat = Boot(fs, cfg).g.cat
    /\ tok = Boot(fs, cfg).g.tok
    /\ hits = [u \in UserIds |-> 0]
    /\ thr = AllIdle
    /\ aud = [AudEmpty EXCEPT !.loaded = TRUE]

NextToken ==
    \/ Between(EnvTick)
    \/ \E u \in Users, ids \in RequestIds, url_flag \in BOOLEAN : DoAddSongs(u, ids, url_flag)
    \/ \E s \in SongIds, n \in {"0.aff", "1.aff"}, t \in Presentable : DoIsValid(s, n, t)
    \/ \E s \in SongIds, n \in {"0.aff", "1.aff"}, t \in Presentable : DoIsLimited(s, n, t)

SpecToken == InitToken /\ [][NextToken]_vars

----------------------------------------------------------------------------
(* Claims about download lists and tokens (SpecToken).                     *)

\* worker 1 has just run the validation `name` on a (song_id, file_name, token)
Checked(name) == thr[1].op.name = name /\ thr[1].res.kind # "none"

\* the validation has answered `b`
Answered(name, b) == Returned(name) /\ thr[1].res.val = b

\* the issued tokens that a validation's arguments a name, file and all
IssuedFor(a) ==
    {x \in aud.issued : x.token = a.token /\ x.song_id = a.song_id
                                          /\ x.file_name = a.file_name}

\* the random bytes of a token tell which of two tokens was drawn later
DrawnAfter(y, x) == y.token[5] > x.token[5]

\* a later token was persisted for the same user and file
Superseded(x) == \E y \in aud.issued : TokenKey(y) = TokenKey(x) /\ DrawnAfter(y, x)

\* C1: with DOWNLOAD_FORBID_WHEN_NO_ITEM set and a catalogue file loaded by
\* initialize_cache, every key of the manifest add_songs builds is a song the
\* user has unlocked.
C1_ManifestWithinUnlocks ==
    (Returned("add_songs") /\ cfg.DOWNLOAD_FORBID_WHEN_NO_ITEM /\ aud.loaded) =>
        DOMAIN thr[1].res.val.urls \subseteq get_user_unlocks(cat, thr[1].op.args.user)

\* C7, as stated: a persisted token validates at every time of
\* [t0, t0 + DOWNLOAD_TIME_GAP_LIMIT] and at no later time, whatever requests
\* and prunes came in between.
C7_WindowWhateverHappens ==
    Checked("is_valid") =>
        \A x \in IssuedFor(thr[1].op.args) :
            Answered("is_valid", TRUE) <=> now <= x.time + DOWNLOAD_TIME_GAP_LIMIT

\* C7, amended: a persisted token validates at every time of
\* [t0, t0 + DOWNLOAD_TIME_GAP_LIMIT] as long as no later token was persisted
\* for the same user and file, and validates at no other time.
C7_WindowUnlessSuperseded ==
    Checked("is_valid") =>
        \A x \in IssuedFor(thr[1].op.args) :
            Answered("is_valid", TRUE) <=>
                (now <= x.time + DOWNLOAD_TIME_GAP_LIMIT /\ ~Superseded(x))

\* a token validates at the last second of its window
C7_ValidAtWindowEnd ==
    /\ Answered("is_valid", TRUE)
    /\ \E x \in IssuedFor(thr[1].op.args) : now = x.time + DOWNLOAD_TIME_GAP_LIMIT

\* C8: download_token holds at most one row per (user_id, song_id,
\* file_name), that row carries the token drawn last for that user and file,
\* and a token that a later request replaced is found by no validation.
C8_OneRowPerKeyLatestToken ==
    /\ \A x, y \in tok.rows : TokenKey(x) = TokenKey(y) => x = y
    /\ \A x \in tok.rows : x \in aud.issued /\ ~Superseded(x)
    /\ \A x \in aud.issued :
          Superseded(x) =>
              /\ \A r \in tok.rows : r.token # x.token
              /\ (Checked("is_valid") /\ thr[1].op.args.token = x.token) =>
                     thr[1].res.kind = "raise"

\* a second request of the same user has replaced a token still in its
\* window, and the validation of the replaced token has failed
C8_ReplacedTokenRefused ==
    /\ Checked("is_valid")
    /\ \E x \in IssuedFor(thr[1].op.args) :
          /\ Superseded(x)
          /\ now <= x.time + DOWNLOAD_TIME_GAP_LIMIT
          /\ \E y \in tok.rows : TokenKey(y) = TokenKey(x) /\ y.time > x.time
    /\ thr[1].res.kind = "raise"

\* the rows that match a validation's arguments exactly
RowsMatching(a) ==
    {x \in tok.rows : x.song_id = a.song_id /\ x.file_name = a.file_name
                                           /\ x.token = a.token}

\* worker 1 is at the end of is_valid or is_limited
CheckedAny == Checked("is_valid") \/ Checked("is_limited")

\* the validation has ended with NoAccess, status 403: no answer at all
Refused == thr[1].res = [kind |-> "raise", val |-> "NoAccess403"]

\* C9: a validation that finds no row with exactly its song_id, file_name and
\* token ends with NoAccess (403) instead of an answer and leaves
\* download_token as it was; a token issued for one file is refused for any
\* other song or file.
C9_NoRowNoAccess ==
    /\ [](CheckedAny /\ RowsMatching(thr[1].op.args) = {} => Refused)
    /\ [](CheckedAny /\ thr[1].op.args.token # NoToken /\ IssuedFor(thr[1].op.args) = {}
            => Refused)
    /\ [][thr'[1].op.name \in {"is_valid", "is_limited"} => tok' = tok]_vars

\* a live token was presented for another song than its own and refused
C9_WrongFileRefused ==
    /\ CheckedAny
    /\ Refused
    /\ \E x \in tok.rows :
          /\ x.token = thr[1].op.args.token
          /\ x.song_id # thr[1].op.args.song_id
          /\ now <= x.time + DOWNLOAD_TIME_GAP_LIMIT

----------------------------------------------------------------------------
(* Workers side by side (SpecConc): each request is served by its own      *)
(* worker, the workers share song_cache.db, the LRU caches and the files,  *)
(* and between two steps of one worker the other worker and the            *)
(* environment may act.  sqlite commits each statement on its own.         *)

\* worker w takes up a call
Begin(w, name, args, fr) ==
    /\ thr[w].stk = <<>>
    /\ aud.calls < MaxCalls
    /\ thr' = [thr EXCEPT ![w] = [stk |-> <<fr>>, op |-> [name |-> name, args |-> args],
                                  res |-> NoRes]]
    /\ aud' = [aud EXCEPT !.calls = @ + 1]
    /\ UNCHANGED <<fs, now, cfg, db, lru, cat, tok, hits>>

\* the file version that the step of frame f reads in full, if it reads one
HashedBy(f) ==
    IF /\ f.fn = "SongFileCache_get_song_file_md5"
       /\ f.pc = "l160"
       /\ IsFile(fs, f.v.song_id, f.v.file_name)
    THEN {<<f.v.song_id, f.v.file_name, fs.dirs[f.v.song_id].files[f.v.file_name]>>}
    ELSE {}

\* worker w takes the next step of its call
StepW(w) ==
    /\ thr[w].stk # <<>>
    /\ \E r \in {Step(E, G, thr[w].stk)} :
        /\ db' = r.g.db
        /\ lru' = r.g.lru
        /\ cat' = r.g.cat
        /\ tok' = r.g.tok
        /\ thr' = [thr EXCEPT ![w] = [@ EXCEPT !.stk = r.stk, !.res = r.res]]
    /\ aud' = [aud EXCEPT !.hashed =
                 [k \in DOMAIN @ \cup HashedBy(Top(thr[w].stk)) |->
                    (IF k \in DOMAIN @ THEN @[k] ELSE 0)
                    + (IF k \in HashedBy(Top(thr[w].stk)) THEN 1 ELSE 0)]]
    /\ UNCHANGED <<fs, now, cfg, hits>>

\* the environment acts while the workers stand where they are
Meanwhile(A) == A /\ thr' = thr

\* one song directory with one chart
DiskConc ==
    [DiskTok EXCEPT !.dirs[idB] = [present |-> FALSE, mtime |-> 0, files |-> NoFiles]]

InitConc ==
    /\ fs = DiskConc
    /\ now = 0
    /\ cfg = [SONG_FILE_HASH_PRE_CALCULATE |-> FALSE, DOWNLOAD_FORBID_WHEN_NO_ITEM |-> TRUE]
    /\ db = Boot(fs, cfg).g.db
    /\ lru = Boot(fs, cfg).g.lru
    /\ cat = Boot(fs, cfg).g.cat
    /\ tok = Boot(fs, cfg).g.tok
    /\ hits = [u \in UserIds |-> 0]
    /\ thr = AllIdle
    /\ aud = [AudEmpty EXCEPT !.loaded = TRUE]

NextConc ==
    \/ Meanwhile(EnvWriteFile(idA, "0.aff"))
    \/ Meanwhile(EnvRemoveDir(idA))
    \/ \E w \in Workers :
          Begin(w, "get_song_file_md5", [song_id |-> idA, file_name |-> "0.aff"],
                hash_frame(idA, "0.aff"))
    \/ \E w \in Workers : Begin(w, "sync_all", <<>>, sync_all_frame)
    \/ \E w \in Workers : Begin(w, "sync_song", [song_id |-> idA], sync_song_frame(idA, None))
    \/ \E w \in Workers : Begin(w, "_delete_song", [song_id |-> idA], delete_song_frame(idA))
    \/ \E w \in Workers :
          Begin(w, "_delete_file", [song_id |-> idA, file_name |-> "0.aff"],
                delete_file_frame(idA, "0.aff"))
    \/ \E w \in Workers : StepW(w)

SpecConc == InitConc /\ [][NextConc]_vars

----------------------------------------------------------------------------
(* Claims about the metadata cache under interleaving (SpecConc).          *)

\* C3: a files row with an md5 holds the MD5 of the bytes the file had when
\* its size and mtime were those of the row, even when the file is rewritten
\* between the caller's stat and the hashing.
C3_Md5MatchesStat ==
    \A k \in DOMAIN db.files :
        db.files[k].md5 # None =>
            /\ db.files[k].md5 = MD5Of(db.files[k].mtime_ns)
            /\ db.files[k].size = FileSize(db.files[k].mtime_ns)

\* C4: between any two statements, every files row has a songs row of the
\* same song_id.
C4_FilesHaveSongs == \A k \in DOMAIN db.files : k[1] \in DOMAIN db.songs

\* C15: a get_song_file_md5 call whose file is gone by the time it is
\* stat'd or hashed ends with None, never with an error, and leaves no files
\* row of that file.
C15_VanishedFileNoHashNoRow ==
    \A w \in Workers :
        (thr[w].op.name = "get_song_file_md5" /\ thr[w].res.kind # "none") =>
            /\ thr[w].res.kind = "return"
            /\ (thr[w].res.val = None /\ ~IsFile(fs, idA, "0.aff")) =>
                   <<idA, "0.aff">> \notin DOMAIN db.files

\* C10: across the get_song_file_md5 calls of all workers, a file is read in
\* full at most once for as long as its size and mtime stay the same.
C10_HashedAtMostOnce == \A k \in DOMAIN aud.hashed : aud.hashed[k] <= 1

----------------------------------------------------------------------------
(* The metadata cache against a changing tree, one handler at a time       *)
(* (SpecSync): sync_song, sync_all and SongFileCache.get_song_file_md5     *)
(* over a store that earlier calls and earlier trees have filled.          *)

InitSync ==
    /\ InitCommon
    /\ fs \in {Disk0, DiskNoB}
    /\ cfg.DOWNLOAD_FORBID_WHEN_NO_ITEM

NextSync ==
    \/ \E s \in SongIds : Between(EnvWriteFile(s, "1.aff"))
    \/ \E s \in SongIds : Between(EnvRemoveFile(s, "0.aff"))
    \/ \E s \in SongIds : Between(EnvRemoveDir(s))
    \/ \E s \in SongIds : Between(EnvMakeDir(s))
    \/ Between(EnvRemoveRoot)
    \/ \E s \in SongIds : DoSyncSong(s)
    \/ DoSyncAll
    \/ \E s \in SongIds, n \in {"0.aff", "1.aff"} : DoCacheMd5(s, n)

SpecSync == InitSync /\ [][NextSync]_vars

\* the rows of songs and files, last_scan and last_seen left out
Rows(d) == [songs |-> d.songs, files |-> d.files]

\* C11: on a tree that does not change, a second sync_all right after the
\* first leaves songs and files as the first left them, whatever the store
\* held before.
C11_SyncAllIdempotent ==
    Returned("sync_all") => Rows(Run(E, G, sync_all_frame).g.db) = Rows(db)

\* sync_all has returned over a store that holds rows of a tree since changed
C11_SyncAllOverOldRows ==
    /\ Returned("sync_all")
    /\ fs.tick > 1
    /\ DOMAIN db.files # {}
    /\ \E s \in DOMAIN db.songs : db.songs[s] < fs.tick

\* C12: when sync_song(s) runs with no directory s, it returns with no songs
\* row and no files row of s, and with the rows of every other song as they
\* were.
C12_PruneOnMissing ==
    /\ [](Returned("sync_song") /\ ~IsDir(fs, thr[1].op.args.song_id) =>
            /\ thr[1].op.args.song_id \notin DOMAIN db.songs
            /\ FileRowsOf(thr[1].op.args.song_id) = {})
    /\ [][(thr'[1].op.name = "sync_song" /\ ~IsDir(fs, thr'[1].op.args.song_id)) =>
            \A o \in SongIds \ {thr'[1].op.args.song_id} :
                /\ (o \in DOMAIN db'.songs) = (o \in DOMAIN db.songs)
                /\ (o \in DOMAIN db.songs => db'.songs[o] = db.songs[o])
                /\ \A n \in DiskNames :
                      /\ (<<o, n>> \in DOMAIN db'.files) = (<<o, n>> \in DOMAIN db.files)
                      /\ (<<o, n>> \in DOMAIN db.files =>
                             db'.files[<<o, n>>] = db.files[<<o, n>>])]_vars

\* the directory of a song with rows went away, sync_song ran, and the
\* other song still has its rows
C12_PrunedOneKeptOther ==
    /\ Returned("sync_song")
    /\ ~IsDir(fs, thr[1].op.args.song_id)
    /\ thr[1].op.args.song_id \notin DOMAIN db.songs
    /\ DOMAIN db.songs # {}
    /\ DOMAIN db.files # {}

----------------------------------------------------------------------------
(* A sync_song given up half way (SpecAbandon).  One worker serves the     *)
(* calls one after the other; the request it runs may be cancelled         *)
(* between two statements, and what the statements before have committed   *)
(* stays.                                                                  *)

\* the call of worker w is cancelled where it stands
Abandon(w) ==
    /\ thr[w].stk # <<>>
    /\ thr' = [thr EXCEPT ![w] = [@ EXCEPT !.stk = <<>>,
                                           !.res = [kind |-> "abandoned", val |-> None]]]
    /\ UNCHANGED <<fs, now, cfg, db, lru, cat, tok, hits, aud>>

\* worker w takes up sync_song(a), SongFileCache.get_song_file_names of a
\* with the mtime just stat'd, or get_one_song_file_names(a)
BeginNames(w) ==
    \/ Begin(w, "sync_song", [song_id |-> idA], sync_song_frame(idA, None))
    \/ /\ IsDir(fs, idA)
       /\ Begin(w, "get_song_file_names", [song_id |-> idA, dir_mtime_ns |-> StatDir(fs, idA)],
                Frame("get_song_file_names", "l142",
                      [song_id |-> idA, dir_mtime_ns |-> StatDir(fs, idA)]))
    \/ Begin(w, "get_one_song_file_names", [song_id |-> idA], names_frame(idA))

\* a chart is added to directory a, or its chart is removed
EditA ==
    \/ Meanwhile(EnvWriteFile(idA, "1.aff"))
    \/ Meanwhile(EnvRemoveFile(idA, "0.aff"))

NextAbandon ==
    \/ EditA
    \/ BeginNames(1)
    \/ StepW(1)
    \/ Abandon(1) /\ thr[1].op.name = "sync_song"

SpecAbandon == InitConc /\ [][NextAbandon]_vars

\* C13: whatever sync_song was given up between two statements before, a
\* get_song_file_names(a, m) called with the current mtime m of directory a
\* returns exactly the legal files present in a.
C13_NamesAfterAbandon ==
    (/\ thr[1].op.name = "get_song_file_names"
     /\ thr[1].res.kind = "return"
     /\ IsDir(fs, idA)
     /\ thr[1].op.args.dir_mtime_ns = StatDir(fs, idA))
    => SeqToSet(thr[1].res.val) = LegalPresent(idA)

----------------------------------------------------------------------------
(* Listing a directory while it is being synced (SpecNames): two workers,  *)
(* sync_song and get_one_song_file_names of the same song, no call given   *)
(* up.                                                                     *)

NextNames ==
    \/ EditA
    \/ \E w \in Workers : BeginNames(w)
    \/ \E w \in Workers : StepW(w)

SpecNames == InitConc /\ [][NextNames]_vars

----------------------------------------------------------------------------
(* The catalogue while it is rebuilt (SpecCat): initialize_cache and       *)
(* clear_all_cache run in worker threads, statement by statement; a        *)
(* request thread that reads the class attributes between two of their     *)
(* statements reads cat as the state has it.                               *)

NextCat ==
    \/ \E w \in Workers :
          Begin(w, "initialize_cache", <<>>, Frame("initialize_cache", "l398", <<>>))
    \/ \E w \in Workers :
          Begin(w, "clear_all_cache", <<>>, Frame("clear_all_cache", "l405", <<>>))
    \/ \E w \in Workers : StepW(w)

SpecCat == InitConc /\ [][NextCat]_vars

\* a user who owns every pack, every single and every world unlock
Owner ==
    [user_id |-> 1, packs |-> {"pack1", FREE_PACK_NAME, SINGLE_PACK_NAME},
     singles |-> {idA, idB}, world_songs |-> {idA, idB, idB3}]

\* C14: what a request thread reads of songs, pack_info, free_songs,
\* world_songs and has_songlist is one catalogue version, the cleared one or
\* the one a whole initialize_cache publishes: every song with a bitmap has
\* its entitlement entries, and a catalogue is cleared whole or not at all.
C14_CatalogueSnapshot ==
    /\ cat \in {CatEmpty, Boot(fs, cfg).g.cat}
    /\ DOMAIN cat.songs \subseteq get_user_unlocks(cat, Owner)

----------------------------------------------------------------------------
(* The catalogue and the entitlements read from it, one handler at a time  *)
(* (SpecCatalogue): the songlist file is replaced, and the catalogue is    *)
(* loaded over what is there or cleared.                                   *)

\* a user whose only entitlement is the Beyond chart of the free song b3
User3 == [user_id |-> 1, packs |-> {}, singles |-> {}, world_songs |-> {idB33}]

DoGetUserUnlocks(u) ==
    /\ thr' = [AllIdle EXCEPT ![1] =
                 [stk |-> <<>>, op |-> [name |-> "get_user_unlocks", args |-> [user |-> u]],
                  res |-> [kind |-> "return", val |-> get_user_unlocks(cat, u)]]]
    /\ UNCHANGED <<fs, now, cfg, db, lru, cat, tok, hits, aud>>

InitCatalogue ==
    /\ InitCommon
    /\ \E k \in 0..Len(Songlists) : fs = [Disk0 EXCEPT !.songlist = k]

NextCatalogue ==
    \/ \E k \in 0..Len(Songlists) : Between(EnvSetSonglist(k))
    \/ DoInitializeCache
    \/ DoClearAllCache
    \/ \E u \in {NoUser, User2, User3} : DoGetUserUnlocks(u)
    \/ \E u \in {User2}, ids \in {<<>>, <<idB>>} : DoAddSongs(u, ids, FALSE)

SpecCatalogue == InitCatalogue /\ [][NextCatalogue]_vars

\* C16: under every catalogue that initialize_cache and clear_all_cache leave,
\* the set get_user_unlocks returns for a user holds every free song.
C16_UnlocksHoldFreeSongs ==
    (Returned("get_user_unlocks") /\ thr[1].op.args.user # NoUser) =>
        cat.free_songs \subseteq thr[1].res.val

\* a user without the free song among their packs, singles and world unlocks
\* has asked under a catalogue that was loaded twice and has a free song
C16_FreeSongOfNonOwner ==
    /\ Returned("get_user_unlocks")
    /\ thr[1].op.args.user = User3
    /\ idA \in cat.free_songs
    /\ idB3 \in cat.free_songs
    /\ idA \in thr[1].res.val

\* C18 as stated: the world-unlock part of get_user_unlocks is world_songs &
\* user.world_songs with every trailing '3' of each id removed (rstrip).
C18_WorldPartRstrip ==
    (Returned("get_user_unlocks") /\ thr[1].op.args.user # NoUser) =>
        WorldUnlocks(cat, thr[1].op.args.user) =
            {RStrip3(i) : i \in cat.world_songs \cap thr[1].op.args.user.world_songs}

\* C18, amended: the world-unlock part of get_user_unlocks is world_songs &
\* user.world_songs with each id that ends with '3' losing exactly its last
\* character and every other id kept, and the returned set holds all of it.
C18_WorldPartDropsOne3 ==
    (Returned("get_user_unlocks") /\ thr[1].op.args.user # NoUser) =>
        /\ WorldUnlocks(cat, thr[1].op.args.user) =
              {IF i[Len(i)] = "3" THEN SubSeq(i, 1, Len(i) - 1) ELSE i :
                  i \in cat.world_songs \cap thr[1].op.args.user.world_songs}
        /\ WorldUnlocks(cat, thr[1].op.args.user) \subseteq thr[1].res.val

\* the holder of the Beyond unlock b33 of the free song b3 has asked: b3 is
\* unlocked and b, whose id rstrip would give, is not
C18_Beyond33KeepsOne3 ==
    /\ Returned("get_user_unlocks")
    /\ thr[1].op.args.user = User3
    /\ idB33 \in cat.world_songs
    /\ idB \in cat.world_songs
    /\ idB3 \in thr[1].res.val
    /\ idB \notin thr[1].res.val

\* the songlist entries that carry an id and whose remote_dl is false or absent
LocalEntries ==
    {x \in UNION {SeqToSet(Songlists[k]) : k \in 1..Len(Songlists)} :
        "id" \in DOMAIN x /\ ~Get(x, "remote_dl", FALSE)}

\* C17: for a catalogue song whose remote_dl is false or absent, parse_one
\* sets no chart bit other than bit 3 and never bit 5, is_available_file
\* rejects 0.aff, 1.aff, 2.aff, 4.aff and base.ogg, and the manifest add_songs
\* returns has no chart entry for it other than chart["3"], whatever files
\* are on disk.
C17_LocalSongOnlyBeyondChart ==
    \A x \in LocalEntries :
        /\ \A i \in {0, 1, 2, 4, 5} : ~BitSet(parse_one(x)[x.id], i)
        /\ (x.id \in DOMAIN cat.songs /\ cat.songs[x.id] = parse_one(x)[x.id]) =>
              /\ \A n \in {"0.aff", "1.aff", "2.aff", "4.aff", "base.ogg"} :
                     ~is_available_file(cat.songs, x.id, n)
              /\ (Returned("add_songs") /\ x.id \in DOMAIN thr[1].res.val.urls) =>
                     DOMAIN Get(thr[1].res.val.urls[x.id], "chart", EmptyFn) \subseteq {"3"}

----------------------------------------------------------------------------
(* One download-list request at a time, statement by statement             *)
(* (SpecRequest): the clock advances and a chart is rewritten while the    *)
(* request is under way.                                                   *)

BeginAddSongs(w, u, ids, url_flag) ==
    /\ tok.nonce < MaxNonce
    /\ Begin(w, "add_songs", [user |-> u, song_ids |-> ids, url_flag |-> url_flag],
             add_songs_frame(u, ids, url_flag))

NextRequest ==
    \/ Meanwhile(EnvTick)
    \/ Meanwhile(EnvWriteFile(idA, "0.aff"))
    \/ \E url_flag \in BOOLEAN : BeginAddSongs(1, User2, <<>>, url_flag)
    \/ StepW(1)

SpecRequest == InitToken /\ [][NextRequest]_vars

\* the request of worker 1 stands at line pc of add_songs itself
AtLine(pc) ==
    /\ thr[1].stk # <<>>
    /\ Top(thr[1].stk).fn = "add_songs"
    /\ Top(thr[1].stk).pc = pc

\* C19: within an add_songs request download_token is written only with
\* url_flag true, and only by its last two statements: the delete of the
\* expired rows, then the batch insert, after which the request returns; so
\* every enumeration and every hash of the request comes before both.
C19_TokenWritesComeLast ==
    /\ [][tok'.rows # tok.rows =>
             /\ AtLine("l530") \/ AtLine("l531")
             /\ thr[1].op.args.url_flag]_vars
    /\ [][(AtLine("l530") /\ thr' # thr) =>
             /\ tok'.rows \subseteq tok.rows
             /\ Len(thr'[1].stk) = 1
             /\ Top(thr'[1].stk).pc = "l531"
             /\ UNCHANGED <<db, lru>>
             /\ aud'.hashed = aud.hashed]_vars
    /\ [][(AtLine("l531") /\ thr' # thr) =>
             /\ RowsOf(thr[1].op.args.user.user_id, thr'[1].res.val.downloads)
                    \subseteq tok'.rows
             /\ thr'[1].stk = <<>>
             /\ thr'[1].res.kind = "return"
             /\ UNCHANGED <<db, lru>>
             /\ aud'.hashed = aud.hashed]_vars

\* a url_flag request that hashed two files has returned with its two tokens
\* in download_token
C19_TokensOfHashedFiles ==
    /\ thr[1].op.name = "add_songs"
    /\ thr[1].op.args.url_flag
    /\ thr[1].res.kind = "return"
    /\ Len(thr[1].res.val.downloads) = 2
    /\ RowsOf(User2.user_id, thr[1].res.val.downloads) \subseteq tok.rows
    /\ Cardinality(DOMAIN aud.hashed) >= 2

\* C21: clear_download_token run at time now removes exactly the rows that
\* is_valid would reject at now: a row still inside its window stays, a row
\* past it goes.
C21_PruneExactlyInvalid ==
    [][(AtLine("l530") /\ thr' # thr) =>
          /\ tok'.rows = {x \in tok.rows : TokenIsValid(now, x.time)}
          /\ \A x \in tok.rows \ tok'.rows : x.time < now - DOWNLOAD_TIME_GAP_LIMIT]_vars

\* the second url_flag request has pruned: of the two rows of the first
\* request the one past its window is gone, the one at the very end of its
\* window is still there
C21_PrunedOneKeptBoundary ==
    /\ AtLine("l531")
    /\ tok.nonce = 4
    /\ Cardinality(tok.rows) = 1
    /\ \E x \in tok.rows : x.time = now - DOWNLOAD_TIME_GAP_LIMIT

----------------------------------------------------------------------------
(* The links of a manifest and the rows behind them (SpecLinks): requests  *)
(* over a song that has a file of every kind the manifest routes.         *)

\* song a with a chart, both audio files and a video, and no songlist
DiskLinks ==
    [DiskTok EXCEPT !.songlist = 0,
                    !.dirs[idA].files = [n \in DiskNames |->
                        IF n \in {"0.aff", "base.ogg", "3.ogg", "video.mp4"} THEN 1 ELSE 0]]

InitLinks ==
    /\ fs \in {DiskLinks, [DiskLinks EXCEPT !.songlist = 2]}
    /\ now = 0
    /\ cfg \in [SONG_FILE_HASH_PRE_CALCULATE : {FALSE}, DOWNLOAD_FORBID_WHEN_NO_ITEM : BOOLEAN]
    /\ db = Boot(fs, cfg).g.db
    /\ lru = Boot(fs, cfg).g.lru
    /\ cat = Boot(fs, cfg).g.cat
    /\ tok = Boot(fs, cfg).g.tok
    /\ hits = [u \in UserIds |-> 0]
    /\ thr = AllIdle
    /\ aud = [AudEmpty EXCEPT !.loaded = fs.songlist # 0]

NextLinks ==
    \/ Between(EnvTick)
    \/ \E u \in Users, ids \in RequestIds, url_flag \in BOOLEAN : DoAddSongs(u, ids, url_flag)

SpecLinks == InitLinks /\ [][NextLinks]_vars

\* the links of one manifest entry re: of its charts, its audio and its
\* additional files
LinksOf(re) ==
    LET chart == Get(re, "chart", EmptyFn)
        audio == Get(re, "audio", EmptyFn)
        extra == Get(re, "additional_files", <<>>)
    IN {chart[k].url : k \in DOMAIN chart}
       \cup (IF "url" \in DOMAIN audio THEN {audio.url} ELSE {})
       \cup (IF "3" \in DOMAIN audio THEN {audio["3"].url} ELSE {})
       \cup {extra[i].url : i \in 1..Len(extra)}

\* C22: when a url_flag request returns, each link of its manifest carries a
\* token that download_token holds a row for, under the request's user and
\* the link's song and file, also when song_ids names a song twice; and each
\* row the request wrote carries a token and its time.
C22_LinksHaveRows ==
    (Returned("add_songs") /\ thr[1].op.args.url_flag) =>
        /\ \A s \in DOMAIN thr[1].res.val.urls :
              \A u \in LinksOf(thr[1].res.val.urls[s]) :
                  /\ u.song_id = s
                  /\ \E x \in tok.rows :
                        /\ x.user_id = thr[1].op.args.user.user_id
                        /\ x.song_id = u.song_id
                        /\ x.file_name = u.file_name
                        /\ x.token = u.t
        /\ \A i \in 1..Len(thr[1].res.val.downloads) :
              /\ thr[1].res.val.downloads[i].token # NoToken
              /\ thr[1].res.val.downloads[i].token_time # None

\* a request naming song a twice has returned: two tokens were drawn for each
\* of its four files (a chart, both audio files, a video), the manifest links
\* the second of each, and the rows hold the second and not the first
C22_TwiceNamedSongLinked ==
    /\ Returned("add_songs")
    /\ thr[1].op.args.url_flag
    /\ thr[1].op.args.song_ids = <<idA, idA>>
    /\ Len(thr[1].res.val.downloads) = 8
    /\ Cardinality(LinksOf(thr[1].res.val.urls[idA])) = 4
    /\ \A i \in 1..4 :
          /\ thr[1].res.val.downloads[i].file_name = thr[1].res.val.downloads[i + 4].file_name
          /\ UrlOf(idA, thr[1].res.val.downloads[i].file_name,
                   thr[1].res.val.downloads[i + 4].token)
                \in LinksOf(thr[1].res.val.urls[idA])
          /\ thr[1].res.val.downloads[i].token \notin {x.token : x \in tok.rows}
          /\ thr[1].res.val.downloads[i + 4].token \in {x.token : x \in tok.rows}
====
